---- MODULE Spec2Model ----
(***************************************************************************)
(* Model of the DAOSkillProofFHE ledger contract                           *)
(* (src/frontend/web/src/App.tsx, lines 826-1088).                         *)
(*                                                                         *)
(* Every external function f of the contract is an operator fError, the   *)
(* chain of modifiers and revert statements of f evaluated in the current  *)
(* state ("ok" when none fires), and an action f, enabled when fError is   *)
(* "ok", that applies the body of f.  A reverted call rolls back every     *)
(* write, so it is a stuttering step.  Handles (euint32 / bytes32) and     *)
(* hashes are integers under injective codings: two handles are equal      *)
(* exactly when they were produced the same way.                           *)
(***************************************************************************)
EXTENDS Integers, Sequences, FiniteSets, TLC

(* ------------------------------ bounds --------------------------------- *)
MaxBatches == 2
MaxRequests == 2
MaxEvents == 5
MaxAdminEvents == 2
MaxTicks == 1
MaxSubmits == 2

(* ------------------------- environment values -------------------------- *)
\* block.timestamp of the deployment block and the time between two blocks
GenesisTime == 1000
TickStep == 60

Owner == "owner"
Alice == "alice"
Oracle == "oracle"
NoAddress == "none"
Actors == {Owner, Alice, Oracle}
ProviderInputs == {Alice}

ContributionIds == {1, 2}
SkillInputs == {1, 2}
ContributionInputs == {3}
CooldownInputs == {0, 120}
BatchIdInputs == 0..MaxBatches
RequestIdInputs == 0..MaxRequests
CleartextLenInputs == {31, 32}
ClearValueInputs == {1}
ProofInputs == {0, 1}

(* --------------------------- program constants ------------------------- *)
InitialCooldownSeconds == 60
CleartextLength == 32

(* ----------------------- opaque handle codings ------------------------- *)
ZeroHandle == 0
TrivialBase == 1000
AddBase == 100
HandleRadix == 10
HashBase == 100000
ThisAddress == 7

\* FHE.asEuint32(v): the handle of the trivial encryption of v
asEuint32(v) == TrivialBase + v

\* euint32.add: the handle of the homomorphic sum
FheAdd(a, b) == AddBase + a * HandleRadix + b

\* FHE.toBytes32: unwraps the handle
toBytes32(h) == h

_hashCiphertexts(cts) == HashBase + cts[1] * HandleRadix + ThisAddress

VARIABLES providers, paused, cooldownSeconds, batches, contributions,
          decryptionContexts, lastSubmissionTime, lastDecryptionRequestTime,
          events, dispatched, now

\* the dashboard: the bytes stored under the key "contributions", and per
\* browser session the React state `contributions`, the list built by
\* submitContribution, the position of its handler and the number of its
\* submissions that were saved
VARIABLES storedData, appContributions, updatedContributions, pc, saved

ledgerVars == <<providers, paused, cooldownSeconds, batches, contributions,
                decryptionContexts, lastSubmissionTime, lastDecryptionRequestTime,
                events, dispatched, now>>

dashboardVars == <<storedData, appContributions, updatedContributions, pc, saved>>

vars == <<providers, paused, cooldownSeconds, batches, contributions,
          decryptionContexts, lastSubmissionTime, lastDecryptionRequestTime,
          events, dispatched, now,
          storedData, appContributions, updatedContributions, pc, saved>>

(* ------------------------------ records -------------------------------- *)
SkillContribution(s, c, t, e) ==
    [skillScore |-> s, contributionScore |-> c, totalScore |-> t, exists |-> e]

Batch(i, o) == [id |-> i, open |-> o]

DecryptionContext(b, h, p) == [batchId |-> b, stateHash |-> h, processed |-> p]

Event(n, w, b, k, v) == [name |-> n, who |-> w, batchId |-> b, key |-> k, val |-> v]

\* batches.length: the number of batches created so far.  The uint32 casts of
\* the source are the identity on every length below 2^32, far above MaxBatches.
batchesLength == Cardinality(DOMAIN batches)

\* a read of the batches mapping: an unset slot reads as the zero struct
batchAt(i) == IF i \in DOMAIN batches THEN batches[i] ELSE Batch(0, FALSE)

\* emit: appends to the transaction log
Emit(ev) ==
    /\ Len(events) < MaxEvents
    /\ events' = Append(events, ev)

\* the events of the owner's configuration calls
AdminEventNames == {"ProviderAdded", "ProviderRemoved", "Paused", "Unpaused", "CooldownSet"}

\* emit of a configuration call; the explored runs hold at most
\* MaxAdminEvents of them
EmitAdmin(ev) ==
    /\ Cardinality({i \in 1..Len(events) : events[i].name \in AdminEventNames}) < MaxAdminEvents
    /\ Emit(ev)

(* ------------------------------ dashboard ------------------------------ *)
\* the browser sessions, each with a connected wallet
Clients == {"client1", "client2"}

\* the fields of a Contribution that submitContribution computes from state
Contribution(i, a) == [id |-> i, contributor |-> a]

\* JSON.stringify and JSON.parse of a Contribution list: an object is written
\* as the sequence of its values in field order and read back by position
JSONstringify(list) == [i \in 1..Len(list) |-> <<list[i].id, list[i].contributor>>]

JSONparse(str) == [i \in 1..Len(str) |-> Contribution(str[i][1], str[i][2])]

\* contract.getData("contributions"): the bytes last stored under the key
getData == storedData

DashboardInit ==
    /\ storedData = << >>
    /\ appContributions = [c \in Clients |-> << >>]
    /\ updatedContributions = [c \in Clients |-> << >>]
    /\ pc = [c \in Clients |-> "idle"]
    /\ saved = [c \in Clients |-> 0]

Init ==
    /\ providers = [a \in Actors |-> FALSE]
    /\ paused = FALSE
    /\ cooldownSeconds = InitialCooldownSeconds
    /\ batches = << >>
    /\ contributions = [c \in ContributionIds |-> SkillContribution(ZeroHandle, ZeroHandle, ZeroHandle, FALSE)]
    /\ decryptionContexts = [r \in RequestIdInputs |-> DecryptionContext(0, 0, FALSE)]
    /\ lastSubmissionTime = [a \in Actors |-> 0]
    /\ lastDecryptionRequestTime = [a \in Actors |-> 0]
    /\ events = << >>
    /\ dispatched = << >>
    /\ now = GenesisTime
    /\ DashboardInit

(* --------------------------- AccessControl ----------------------------- *)
\* variant: adding an actor that already is a provider is an error
addProviderErrorRejectsExisting(caller, p) ==
    IF caller # Owner THEN "NotOwner"
    ELSE IF paused THEN "Paused"
    ELSE IF providers[p] THEN "InvalidArgument"
    ELSE "ok"

addProviderError(caller, p) ==
    IF caller # Owner THEN "NotOwner"
    ELSE IF paused THEN "Paused"
    ELSE "ok"

addProvider(caller, p) ==
    /\ addProviderError(caller, p) = "ok"
    /\ providers' = [providers EXCEPT ![p] = TRUE]
    /\ EmitAdmin(Event("ProviderAdded", p, 0, 0, 0))
    /\ UNCHANGED <<paused, cooldownSeconds, batches, contributions,
                   decryptionContexts, lastSubmissionTime,
                   lastDecryptionRequestTime, dispatched, now>>
    /\ UNCHANGED dashboardVars

\* variant: the onlyOwner modifier of line 939 is missing
removeProviderErrorNoOwnerCheck(caller, p) ==
    IF paused THEN "Paused"
    ELSE "ok"

removeProviderError(caller, p) ==
    IF caller # Owner THEN "NotOwner"
    ELSE IF paused THEN "Paused"
    ELSE "ok"

removeProvider(caller, p) ==
    /\ removeProviderError(caller, p) = "ok"
    /\ providers' = [providers EXCEPT ![p] = FALSE]
    /\ EmitAdmin(Event("ProviderRemoved", p, 0, 0, 0))
    /\ UNCHANGED <<paused, cooldownSeconds, batches, contributions,
                   decryptionContexts, lastSubmissionTime,
                   lastDecryptionRequestTime, dispatched, now>>
    /\ UNCHANGED dashboardVars

pauseError(caller) == IF caller # Owner THEN "NotOwner" ELSE "ok"

pause(caller) ==
    /\ pauseError(caller) = "ok"
    /\ paused' = TRUE
    /\ EmitAdmin(Event("Paused", caller, 0, 0, 0))
    /\ UNCHANGED <<providers, cooldownSeconds, batches, contributions,
                   decryptionContexts, lastSubmissionTime,
                   lastDecryptionRequestTime, dispatched, now>>
    /\ UNCHANGED dashboardVars

unpauseError(caller) == IF caller # Owner THEN "NotOwner" ELSE "ok"

unpause(caller) ==
    /\ unpauseError(caller) = "ok"
    /\ paused' = FALSE
    /\ EmitAdmin(Event("Unpaused", caller, 0, 0, 0))
    /\ UNCHANGED <<providers, cooldownSeconds, batches, contributions,
                   decryptionContexts, lastSubmissionTime,
                   lastDecryptionRequestTime, dispatched, now>>
    /\ UNCHANGED dashboardVars

\* variant: the zero check of line 955 is missing
setCooldownSecondsErrorNoZeroCheck(caller, s) ==
    IF caller # Owner THEN "NotOwner"
    ELSE "ok"

setCooldownSecondsError(caller, s) ==
    IF caller # Owner THEN "NotOwner"
    ELSE IF s = 0 THEN "InvalidArgument"
    ELSE "ok"

setCooldownSeconds(caller, s) ==
    /\ setCooldownSecondsError(caller, s) = "ok"
    /\ cooldownSeconds' = s
    /\ EmitAdmin(Event("CooldownSet", NoAddress, 0, 0, s))
    /\ UNCHANGED <<providers, paused, batches, contributions,
                   decryptionContexts, lastSubmissionTime,
                   lastDecryptionRequestTime, dispatched, now>>
    /\ UNCHANGED dashboardVars

(* ----------------------------- BatchLedger ----------------------------- *)
openBatchError(caller) ==
    IF caller # Owner THEN "NotOwner"
    ELSE IF paused THEN "Paused"
    ELSE "ok"

\* variant: the new id is the last index instead of the length
openBatchReusesLastId(caller) ==
    LET newBatchId == IF batchesLength = 0 THEN 0 ELSE batchesLength - 1 IN
    /\ openBatchError(caller) = "ok"
    /\ batchesLength < MaxBatches
    /\ batches' = [i \in (DOMAIN batches) \cup {newBatchId} |->
                     IF i = newBatchId THEN Batch(newBatchId, TRUE)
                     ELSE batches[i]]
    /\ Emit(Event("BatchOpened", NoAddress, newBatchId, 0, 0))
    /\ UNCHANGED <<providers, paused, cooldownSeconds, contributions,
                   decryptionContexts, lastSubmissionTime,
                   lastDecryptionRequestTime, dispatched, now>>
    /\ UNCHANGED dashboardVars

openBatch(caller) ==
    LET newBatchId == batchesLength IN
    /\ openBatchError(caller) = "ok"
    /\ batchesLength < MaxBatches
    /\ batches' = [i \in (DOMAIN batches) \cup {newBatchId} |->
                     IF i = newBatchId THEN Batch(newBatchId, TRUE)
                     ELSE batches[i]]
    /\ Emit(Event("BatchOpened", NoAddress, newBatchId, 0, 0))
    /\ UNCHANGED <<providers, paused, cooldownSeconds, contributions,
                   decryptionContexts, lastSubmissionTime,
                   lastDecryptionRequestTime, dispatched, now>>
    /\ UNCHANGED dashboardVars

\* variant: the open check of line 969 is missing
closeBatchErrorNoOpenCheck(caller, b) ==
    IF caller # Owner THEN "NotOwner"
    ELSE IF paused THEN "Paused"
    ELSE IF b >= batchesLength THEN "InvalidBatch"
    ELSE "ok"

closeBatchError(caller, b) ==
    IF caller # Owner THEN "NotOwner"
    ELSE IF paused THEN "Paused"
    ELSE IF b >= batchesLength THEN "InvalidBatch"
    ELSE IF ~batchAt(b).open THEN "BatchClosed"
    ELSE "ok"

\* variant: the body runs although the open check of line 969 fired
closeBatchNoRevert(caller, b) ==
    /\ closeBatchError(caller, b) \in {"ok", "BatchClosed"}
    /\ batches' = [batches EXCEPT ![b].open = FALSE]
    /\ Emit(Event("BatchClosed", NoAddress, b, 0, 0))
    /\ UNCHANGED <<providers, paused, cooldownSeconds, contributions,
                   decryptionContexts, lastSubmissionTime,
                   lastDecryptionRequestTime, dispatched, now>>
    /\ UNCHANGED dashboardVars

closeBatch(caller, b) ==
    /\ closeBatchError(caller, b) = "ok"
    /\ batches' = [batches EXCEPT ![b].open = FALSE]
    /\ Emit(Event("BatchClosed", NoAddress, b, 0, 0))
    /\ UNCHANGED <<providers, paused, cooldownSeconds, contributions,
                   decryptionContexts, lastSubmissionTime,
                   lastDecryptionRequestTime, dispatched, now>>
    /\ UNCHANGED dashboardVars

(* ------------------------------ cooldowns ------------------------------ *)
\* the condition under which the modifier reverts with CooldownActive
checkSubmissionCooldown(caller) ==
    now < lastSubmissionTime[caller] + cooldownSeconds

checkDecryptionCooldown(caller) ==
    now < lastDecryptionRequestTime[caller] + cooldownSeconds

(* ------------------------- ContributionRegistry ------------------------ *)
\* variant: the open check of line 981 is missing
submitContributionErrorNoOpenCheck(caller, b, c) ==
    IF ~providers[caller] THEN "NotProvider"
    ELSE IF paused THEN "Paused"
    ELSE IF now < lastSubmissionTime[caller] + cooldownSeconds THEN "CooldownActive"
    ELSE IF b >= batchesLength THEN "InvalidBatch"
    ELSE IF contributions[c].exists THEN "InvalidArgument"
    ELSE "ok"

\* variant: the exists check of line 982 is missing
submitContributionErrorNoExistsCheck(caller, b, c) ==
    IF ~providers[caller] THEN "NotProvider"
    ELSE IF paused THEN "Paused"
    ELSE IF now < lastSubmissionTime[caller] + cooldownSeconds THEN "CooldownActive"
    ELSE IF b >= batchesLength THEN "InvalidBatch"
    ELSE IF ~batchAt(b).open THEN "BatchClosed"
    ELSE "ok"

\* variant: the onlyProvider modifier of line 974 is missing
submitContributionErrorNoProviderCheck(caller, b, c) ==
    IF paused THEN "Paused"
    ELSE IF now < lastSubmissionTime[caller] + cooldownSeconds THEN "CooldownActive"
    ELSE IF b >= batchesLength THEN "InvalidBatch"
    ELSE IF ~batchAt(b).open THEN "BatchClosed"
    ELSE IF contributions[c].exists THEN "InvalidArgument"
    ELSE "ok"

\* variant: the cooldown comparison of line 903 is <= instead of <
submitContributionErrorCooldownInclusive(caller, b, c) ==
    IF ~providers[caller] THEN "NotProvider"
    ELSE IF paused THEN "Paused"
    ELSE IF now <= lastSubmissionTime[caller] + cooldownSeconds THEN "CooldownActive"
    ELSE IF b >= batchesLength THEN "InvalidBatch"
    ELSE IF ~batchAt(b).open THEN "BatchClosed"
    ELSE IF contributions[c].exists THEN "InvalidArgument"
    ELSE "ok"

submitContributionError(caller, b, c) ==
    IF ~providers[caller] THEN "NotProvider"
    ELSE IF paused THEN "Paused"
    ELSE IF checkSubmissionCooldown(caller) THEN "CooldownActive"
    ELSE IF b >= batchesLength THEN "InvalidBatch"
    ELSE IF ~batchAt(b).open THEN "BatchClosed"
    ELSE IF contributions[c].exists THEN "InvalidArgument"
    ELSE "ok"

\* variant: the modifier writes the timestamp and a later revert does not
\* roll it back
submitContributionStampsOnFailure(caller, b, c, skill, contribution) ==
    LET totalScore == FheAdd(skill, contribution) IN
    \/ /\ submitContributionError(caller, b, c) = "ok"
       /\ contributions' = [contributions EXCEPT
                              ![c] = SkillContribution(skill, contribution, totalScore, TRUE)]
       /\ lastSubmissionTime' = [lastSubmissionTime EXCEPT ![caller] = now]
       /\ Emit(Event("ContributionSubmitted", caller, b, c, 0))
       /\ UNCHANGED <<providers, paused, cooldownSeconds, batches,
                      decryptionContexts, lastDecryptionRequestTime, dispatched, now>>
       /\ UNCHANGED dashboardVars
    \/ /\ submitContributionError(caller, b, c) \in {"InvalidBatch", "BatchClosed", "InvalidArgument"}
       /\ lastSubmissionTime' = [lastSubmissionTime EXCEPT ![caller] = now]
       /\ UNCHANGED <<providers, paused, cooldownSeconds, batches, contributions,
                      decryptionContexts, lastDecryptionRequestTime, events,
                      dispatched, now>>
       /\ UNCHANGED dashboardVars

\* variant: the stored total is the skill handle alone
submitContributionTotalIsSkill(caller, b, c, skill, contribution) ==
    /\ submitContributionError(caller, b, c) = "ok"
    /\ contributions' = [contributions EXCEPT
                           ![c] = SkillContribution(skill, contribution, skill, TRUE)]
    /\ lastSubmissionTime' = [lastSubmissionTime EXCEPT ![caller] = now]
    /\ Emit(Event("ContributionSubmitted", caller, b, c, 0))
    /\ UNCHANGED <<providers, paused, cooldownSeconds, batches,
                   decryptionContexts, lastDecryptionRequestTime, dispatched, now>>
    /\ UNCHANGED dashboardVars

\* variant: one timer is shared by both action classes
submitContributionStampsBothTimers(caller, b, c, skill, contribution) ==
    LET totalScore == FheAdd(skill, contribution) IN
    /\ submitContributionError(caller, b, c) = "ok"
    /\ contributions' = [contributions EXCEPT
                           ![c] = SkillContribution(skill, contribution, totalScore, TRUE)]
    /\ lastSubmissionTime' = [lastSubmissionTime EXCEPT ![caller] = now]
    /\ lastDecryptionRequestTime' = [lastDecryptionRequestTime EXCEPT ![caller] = now]
    /\ Emit(Event("ContributionSubmitted", caller, b, c, 0))
    /\ UNCHANGED <<providers, paused, cooldownSeconds, batches,
                   decryptionContexts, dispatched, now>>
    /\ UNCHANGED dashboardVars

submitContribution(caller, b, c, skill, contribution) ==
    LET totalScore == FheAdd(skill, contribution) IN
    /\ submitContributionError(caller, b, c) = "ok"
    /\ contributions' = [contributions EXCEPT
                           ![c] = SkillContribution(skill, contribution, totalScore, TRUE)]
    /\ lastSubmissionTime' = [lastSubmissionTime EXCEPT ![caller] = now]
    /\ Emit(Event("ContributionSubmitted", caller, b, c, 0))
    /\ UNCHANGED <<providers, paused, cooldownSeconds, batches,
                   decryptionContexts, lastDecryptionRequestTime, dispatched, now>>
    /\ UNCHANGED dashboardVars

(* -------------------------- DecryptionProtocol ------------------------- *)
\* variant: the scan counts every batch, not only those with id b
batchAggregateCountsAllBatches(b) ==
    LET indices == 0..(batchesLength - 1)
        found == \E i \in indices : batchAt(i).id = b
        count == Cardinality(indices)
        totalScoreSum == IF found /\ count > 0
                           THEN asEuint32(count)
                           ELSE asEuint32(0)
    IN <<toBytes32(totalScoreSum)>>

\* the nested scan shared by requestBatchScoreDecryption and myCallback:
\* the ciphertext array whose only slot holds the handle computed for batch b
batchAggregate(b) ==
    LET indices == 0..(batchesLength - 1)
        found == \E i \in indices : batchAt(i).id = b
        count == Cardinality({j \in indices : batchAt(j).id = b})
        totalScoreSum == IF found /\ count > 0
                           THEN asEuint32(count)
                           ELSE asEuint32(0)
    IN <<toBytes32(totalScoreSum)>>

\* FHE.requestDecryption: the oracle numbers the requests it receives
nextRequestId == Len(dispatched)

\* variant: the open check of line 1010 is missing
requestBatchScoreDecryptionErrorNoOpenCheck(caller, b) ==
    IF caller # Owner THEN "NotOwner"
    ELSE IF paused THEN "Paused"
    ELSE IF now < lastDecryptionRequestTime[caller] + cooldownSeconds THEN "CooldownActive"
    ELSE IF b >= batchesLength THEN "InvalidBatch"
    ELSE "ok"

requestBatchScoreDecryptionError(caller, b) ==
    IF caller # Owner THEN "NotOwner"
    ELSE IF paused THEN "Paused"
    ELSE IF checkDecryptionCooldown(caller) THEN "CooldownActive"
    ELSE IF b >= batchesLength THEN "InvalidBatch"
    ELSE IF batchAt(b).open THEN "InvalidBatch"
    ELSE "ok"

\* variant: the context is stored under a fixed key instead of the requestId
requestBatchScoreDecryptionFixedKey(caller, b) ==
    LET cts == batchAggregate(b)
        stateHash == _hashCiphertexts(cts)
        requestId == nextRequestId
    IN
    /\ requestBatchScoreDecryptionError(caller, b) = "ok"
    /\ requestId < MaxRequests
    /\ dispatched' = Append(dispatched, cts)
    /\ decryptionContexts' = [decryptionContexts EXCEPT
                                ![0] = DecryptionContext(b, stateHash, FALSE)]
    /\ lastDecryptionRequestTime' = [lastDecryptionRequestTime EXCEPT ![caller] = now]
    /\ Emit(Event("DecryptionRequested", NoAddress, b, requestId, 0))
    /\ UNCHANGED <<providers, paused, cooldownSeconds, batches,
                   contributions, lastSubmissionTime, now>>
    /\ UNCHANGED dashboardVars

\* variant: the hash is taken before cts[0] is filled in
requestBatchScoreDecryptionHashesEmpty(caller, b) ==
    LET cts == batchAggregate(b)
        stateHash == _hashCiphertexts(<<ZeroHandle>>)
        requestId == nextRequestId
    IN
    /\ requestBatchScoreDecryptionError(caller, b) = "ok"
    /\ requestId < MaxRequests
    /\ dispatched' = Append(dispatched, cts)
    /\ decryptionContexts' = [decryptionContexts EXCEPT
                                ![requestId] = DecryptionContext(b, stateHash, FALSE)]
    /\ lastDecryptionRequestTime' = [lastDecryptionRequestTime EXCEPT ![caller] = now]
    /\ Emit(Event("DecryptionRequested", NoAddress, b, requestId, 0))
    /\ UNCHANGED <<providers, paused, cooldownSeconds, batches,
                   contributions, lastSubmissionTime, now>>
    /\ UNCHANGED dashboardVars

requestBatchScoreDecryption(caller, b) ==
    LET cts == batchAggregate(b)
        stateHash == _hashCiphertexts(cts)
        requestId == nextRequestId
    IN
    /\ requestBatchScoreDecryptionError(caller, b) = "ok"
    /\ requestId < MaxRequests
    /\ dispatched' = Append(dispatched, cts)
    /\ decryptionContexts' = [decryptionContexts EXCEPT
                                ![requestId] = DecryptionContext(b, stateHash, FALSE)]
    /\ lastDecryptionRequestTime' = [lastDecryptionRequestTime EXCEPT ![caller] = now]
    /\ Emit(Event("DecryptionRequested", NoAddress, b, requestId, 0))
    /\ UNCHANGED <<providers, paused, cooldownSeconds, batches,
                   contributions, lastSubmissionTime, now>>
    /\ UNCHANGED dashboardVars

\* FHE.checkSignatures: the external verifier returns or throws
checkSignatures(requestId, val, proof) == proof = 1

\* variant: the comparison with the stored stateHash (line 1075) is missing
myCallbackErrorNoHashCheck(caller, requestId, len, val, proof) ==
    IF decryptionContexts[requestId].processed THEN "ReplayDetected"
    ELSE IF len # CleartextLength THEN "DecryptionFailed"
    ELSE IF ~checkSignatures(requestId, val, proof) THEN "DecryptionFailed"
    ELSE "ok"

\* variant: the length check of line 1052 is missing
myCallbackErrorNoLengthCheck(caller, requestId, len, val, proof) ==
    LET currentBatchId == decryptionContexts[requestId].batchId
        cts == batchAggregate(currentBatchId)
        currentHash == _hashCiphertexts(cts)
    IN
    IF decryptionContexts[requestId].processed THEN "ReplayDetected"
    ELSE IF currentHash # decryptionContexts[requestId].stateHash THEN "StateMismatch"
    ELSE IF ~checkSignatures(requestId, val, proof) THEN "DecryptionFailed"
    ELSE "ok"

\* variant: the processed check of line 1051 is missing
myCallbackErrorNoReplayCheck(caller, requestId, len, val, proof) ==
    LET currentBatchId == decryptionContexts[requestId].batchId
        cts == batchAggregate(currentBatchId)
        currentHash == _hashCiphertexts(cts)
    IN
    IF len # CleartextLength THEN "DecryptionFailed"
    ELSE IF currentHash # decryptionContexts[requestId].stateHash THEN "StateMismatch"
    ELSE IF ~checkSignatures(requestId, val, proof) THEN "DecryptionFailed"
    ELSE "ok"

myCallbackError(caller, requestId, len, val, proof) ==
    LET currentBatchId == decryptionContexts[requestId].batchId
        cts == batchAggregate(currentBatchId)
        currentHash == _hashCiphertexts(cts)
    IN
    IF decryptionContexts[requestId].processed THEN "ReplayDetected"
    ELSE IF len # CleartextLength THEN "DecryptionFailed"
    ELSE IF currentHash # decryptionContexts[requestId].stateHash THEN "StateMismatch"
    ELSE IF ~checkSignatures(requestId, val, proof) THEN "DecryptionFailed"
    ELSE "ok"

\* variant: the event carries the requestId in place of the batch id
myCallbackEmitsRequestIdAsBatch(caller, requestId, len, val, proof) ==
    /\ myCallbackError(caller, requestId, len, val, proof) = "ok"
    /\ decryptionContexts' = [decryptionContexts EXCEPT ![requestId].processed = TRUE]
    /\ Emit(Event("DecryptionCompleted", NoAddress, requestId, requestId, val))
    /\ UNCHANGED <<providers, paused, cooldownSeconds, batches,
                   contributions, lastSubmissionTime,
                   lastDecryptionRequestTime, dispatched, now>>
    /\ UNCHANGED dashboardVars

myCallback(caller, requestId, len, val, proof) ==
    LET currentBatchId == decryptionContexts[requestId].batchId IN
    /\ myCallbackError(caller, requestId, len, val, proof) = "ok"
    /\ decryptionContexts' = [decryptionContexts EXCEPT ![requestId].processed = TRUE]
    /\ Emit(Event("DecryptionCompleted", NoAddress, currentBatchId, requestId, val))
    /\ UNCHANGED <<providers, paused, cooldownSeconds, batches,
                   contributions, lastSubmissionTime,
                   lastDecryptionRequestTime, dispatched, now>>
    /\ UNCHANGED dashboardVars

(* ------------------------------ environment ---------------------------- *)
\* a later block is mined: block.timestamp advances
Tick ==
    /\ now < GenesisTime + MaxTicks * TickStep
    /\ now' = now + TickStep
    /\ UNCHANGED <<providers, paused, cooldownSeconds, batches, contributions,
                   decryptionContexts, lastSubmissionTime,
                   lastDecryptionRequestTime, events, dispatched>>
    /\ UNCHANGED dashboardVars

Next ==
    \/ \E caller \in Actors, p \in ProviderInputs : addProvider(caller, p)
    \/ \E caller \in Actors, p \in ProviderInputs : removeProvider(caller, p)
    \/ \E caller \in Actors : pause(caller)
    \/ \E caller \in Actors : unpause(caller)
    \/ \E caller \in Actors, s \in CooldownInputs : setCooldownSeconds(caller, s)
    \/ \E caller \in Actors : openBatch(caller)
    \/ \E caller \in Actors, b \in BatchIdInputs : closeBatch(caller, b)
    \/ \E caller \in Actors, b \in BatchIdInputs, c \in ContributionIds,
          skill \in SkillInputs, contribution \in ContributionInputs :
            submitContribution(caller, b, c, skill, contribution)
    \/ \E caller \in Actors, b \in BatchIdInputs : requestBatchScoreDecryption(caller, b)
    \/ \E caller \in Actors, requestId \in RequestIdInputs, len \in CleartextLenInputs,
          val \in ClearValueInputs, proof \in ProofInputs :
            myCallback(caller, requestId, len, val, proof)
    \/ Tick

Spec == Init /\ [][Next]_vars

(* -------------------------- dashboard handlers ------------------------- *)
\* loadData: on mount, on refresh and at the end of submitContribution
loadData(c) ==
    LET contributionsBytes == getData
        contributionsList == IF Len(contributionsBytes) > 0
                               THEN JSONparse(contributionsBytes)
                               ELSE << >>
    IN
    /\ pc[c] \in {"idle", "loadData"}
    /\ appContributions' = [appContributions EXCEPT ![c] = contributionsList]
    /\ pc' = [pc EXCEPT ![c] = "idle"]
    /\ UNCHANGED <<storedData, updatedContributions, saved>>
    /\ UNCHANGED ledgerVars

\* submitContribution of the dashboard up to the await of setData: the new
\* entry and the updated list are built from the React state of the session
appSubmitContribution(c) ==
    LET newContribution == Contribution(Len(appContributions[c]) + 1, c) IN
    /\ pc[c] = "idle"
    /\ saved[c] < MaxSubmits
    /\ updatedContributions' = [updatedContributions EXCEPT
                                  ![c] = Append(appContributions[c], newContribution)]
    /\ pc' = [pc EXCEPT ![c] = "setData"]
    /\ UNCHANGED <<storedData, appContributions, saved>>
    /\ UNCHANGED ledgerVars

\* contract.setData("contributions", ...) is mined: the key holds the whole
\* list of this session; loadData follows
setData(c) ==
    /\ pc[c] = "setData"
    /\ storedData' = JSONstringify(updatedContributions[c])
    /\ saved' = [saved EXCEPT ![c] = saved[c] + 1]
    /\ pc' = [pc EXCEPT ![c] = "loadData"]
    /\ UNCHANGED <<appContributions, updatedContributions>>
    /\ UNCHANGED ledgerVars

\* the transaction is rejected or fails: the catch branch, nothing is stored
setDataRejected(c) ==
    /\ pc[c] = "setData"
    /\ pc' = [pc EXCEPT ![c] = "idle"]
    /\ UNCHANGED <<storedData, appContributions, updatedContributions, saved>>
    /\ UNCHANGED ledgerVars

DashboardNext ==
    \/ \E c \in Clients : loadData(c)
    \/ \E c \in Clients : appSubmitContribution(c)
    \/ \E c \in Clients : setData(c)
    \/ \E c \in Clients : setDataRejected(c)

DashboardSpec == Init /\ [][DashboardNext]_vars


(* ======================================================================= *)
(* Properties                                                              *)
(* ======================================================================= *)
EventIndices(n) == {i \in 1..Len(events) : events[i].name = n}

\* the number of events named n that carry the key k
EventCount(n, k) == Cardinality({i \in EventIndices(n) : events[i].key = k})

\* the modifiers and batch checks of submitContribution all pass
SubmitReachesExistsCheck(caller, b) ==
    /\ providers[caller]
    /\ ~paused
    /\ now >= lastSubmissionTime[caller] + cooldownSeconds
    /\ b < batchesLength
    /\ batchAt(b).open

C2_ReplayDetected ==
    /\ \A r \in RequestIdInputs :
          decryptionContexts[r].processed =>
              \A caller \in Actors, len \in CleartextLenInputs,
                 val \in ClearValueInputs, proof \in ProofInputs :
                    myCallbackError(caller, r, len, val, proof) = "ReplayDetected"
    /\ \A r \in RequestIdInputs :
          EventCount("DecryptionCompleted", r) = (IF decryptionContexts[r].processed THEN 1 ELSE 0)

C2_Witness ==
    \E r \in RequestIdInputs :
        /\ decryptionContexts[r].processed
        /\ EventCount("DecryptionCompleted", r) = 1
        /\ myCallbackError(Oracle, r, CleartextLength, 1, 1) = "ReplayDetected"
        /\ Len(events) < MaxEvents

\* the homomorphic sum of the totalScore handles of the contributions that
\* the first n events record for batch b, in submission order
RECURSIVE HomomorphicSum(_, _)
HomomorphicSum(b, n) ==
    IF n = 0 THEN asEuint32(0)
    ELSE LET prev == HomomorphicSum(b, n - 1)
             e == events[n]
         IN IF e.name = "ContributionSubmitted" /\ e.batchId = b
              THEN FheAdd(prev, contributions[e.key].totalScore)
              ELSE prev

\* C4 as stated: the handle set dispatched for a batch is the homomorphic sum
\* of the totalScore handles of the contributions stored for that batch (a
\* closed batch receives no contribution, so its contributions at the moment
\* of the call are those of the current state).
C4_AggregateIsSumOfTotals ==
    \A r \in 1..Len(dispatched) :
        dispatched[r] = <<toBytes32(HomomorphicSum(decryptionContexts[r - 1].batchId, Len(events)))>>

\* C5 as stated: while the system is paused no step changes the batch table,
\* the contribution table, the context table, the cooldown timestamps or the
\* set of dispatched requests.
C5_PausedFreezesLedger ==
    [][paused => UNCHANGED <<batches, contributions, decryptionContexts,
                             lastSubmissionTime, lastDecryptionRequestTime,
                             dispatched>>]_vars

\* C6 as stated: a callback invoked by any actor other than the oracle is
\* never accepted.
C6_OnlyOracleAccepted ==
    \A caller \in Actors \ {Oracle}, r \in RequestIdInputs, len \in CleartextLenInputs,
       val \in ClearValueInputs, proof \in ProofInputs :
          myCallbackError(caller, r, len, val, proof) # "ok"

\* C7 as stated: a callback for a requestId without a stored context fails
\* with UnknownRequest.
C7_UnknownRequestError ==
    \A caller \in Actors, r \in RequestIdInputs, len \in CleartextLenInputs,
       val \in ClearValueInputs, proof \in ProofInputs :
          r >= nextRequestId => myCallbackError(caller, r, len, val, proof) = "UnknownRequest"

\* C7 amended: a callback for a requestId without a stored context always
\* fails, with DecryptionFailed when the cleartext is not 32 bytes long and
\* with StateMismatch otherwise; the slot stays empty and no
\* DecryptionCompleted carries that requestId.
C7_UnknownRequestRejected ==
    \A r \in RequestIdInputs :
        r >= nextRequestId =>
            /\ decryptionContexts[r] = DecryptionContext(0, 0, FALSE)
            /\ EventCount("DecryptionCompleted", r) = 0
            /\ EventCount("DecryptionRequested", r) = 0
            /\ \A caller \in Actors, len \in CleartextLenInputs,
                  val \in ClearValueInputs, proof \in ProofInputs :
                    myCallbackError(caller, r, len, val, proof) =
                        (IF len # CleartextLength THEN "DecryptionFailed" ELSE "StateMismatch")

C7_Witness ==
    /\ nextRequestId >= 1
    /\ ~batchAt(0).open
    /\ decryptionContexts[0].batchId = 0
    /\ myCallbackError(Oracle, 0, CleartextLength, 1, 1) = "ok"
    /\ myCallbackError(Oracle, nextRequestId, CleartextLength, 1, 1) = "StateMismatch"
    /\ myCallbackError(Oracle, nextRequestId, 31, 1, 1) = "DecryptionFailed"

\* the modifiers of submitContribution all pass
SubmitPassesModifiers(caller) ==
    /\ providers[caller]
    /\ ~paused
    /\ now >= lastSubmissionTime[caller] + cooldownSeconds

\* C8: a submit for a closed batch or for a batch id that was never opened
\* never succeeds; once the modifiers pass the error is BatchClosed for a
\* closed batch and InvalidBatch for an unknown id; every recorded submission
\* follows the opening of its batch and precedes its closing.
C8_ClosedOrUnknownBatchRejected ==
    /\ \A caller \in Actors, b \in BatchIdInputs, c \in ContributionIds :
          (b >= batchesLength \/ ~batchAt(b).open) =>
              /\ submitContributionError(caller, b, c) # "ok"
              /\ SubmitPassesModifiers(caller) =>
                    submitContributionError(caller, b, c) =
                        (IF b >= batchesLength THEN "InvalidBatch" ELSE "BatchClosed")
    /\ \A i \in EventIndices("ContributionSubmitted") :
          /\ \E j \in 1..(i - 1) :
                events[j].name = "BatchOpened" /\ events[j].batchId = events[i].batchId
          /\ ~\E j \in 1..(i - 1) :
                events[j].name = "BatchClosed" /\ events[j].batchId = events[i].batchId

C8_Witness ==
    \E caller \in Actors, b \in BatchIdInputs, c \in ContributionIds :
        /\ SubmitPassesModifiers(caller)
        /\ ~contributions[c].exists
        /\ b < batchesLength
        /\ ~batchAt(b).open
        /\ submitContributionError(caller, b, c) = "BatchClosed"
        /\ submitContributionError(caller, batchesLength, c) = "InvalidBatch"
        /\ EventIndices("ContributionSubmitted") # {}

\* C9: a batch that is Closed is still there and still Closed after every step.
C9_ClosedStaysClosed ==
    [][\A b \in DOMAIN batches :
          ~batches[b].open => (b \in DOMAIN batches' /\ ~batches'[b].open /\ batches'[b].id = batches[b].id)]_vars

C9_Witness ==
    \E i \in EventIndices("BatchClosed") :
        /\ i < Len(events)
        /\ events[Len(events)].name = "BatchOpened"
        /\ ~batchAt(events[i].batchId).open

\* C10: a contribution record that exists is the same record after every step.
C10_ContributionImmutable ==
    [][\A c \in ContributionIds :
          contributions[c].exists => contributions'[c] = contributions[c]]_vars

C10_Witness ==
    \E i \in EventIndices("ContributionSubmitted") :
        /\ contributions[events[i].key].exists
        /\ contributions[events[i].key].totalScore =
              FheAdd(contributions[events[i].key].skillScore,
                     contributions[events[i].key].contributionScore)
        /\ \E j \in EventIndices("ContributionSubmitted") : j > i

\* the stored hash of request r equals the hash recomputed from the batch table
HashMatches(r) ==
    _hashCiphertexts(batchAggregate(decryptionContexts[r].batchId)) = decryptionContexts[r].stateHash

\* C11: processed starts false when a context is stored, never goes back to
\* false, and goes to true only in a step that accepts a callback for a
\* stored request whose hash matches: that step changes nothing else in the
\* context table and appends the DecryptionCompleted event of that request.
C11_ProcessedMonotonic ==
    [][\A r \in RequestIdInputs :
          /\ decryptionContexts[r].processed => decryptionContexts'[r].processed
          /\ (Len(dispatched') > Len(dispatched) /\ r = nextRequestId)
                => ~decryptionContexts'[r].processed
          /\ (~decryptionContexts[r].processed /\ decryptionContexts'[r].processed) =>
                /\ r < nextRequestId
                /\ HashMatches(r)
                /\ decryptionContexts' = [decryptionContexts EXCEPT ![r].processed = TRUE]
                /\ Len(events') = Len(events) + 1
                /\ events'[Len(events')].name = "DecryptionCompleted"
                /\ events'[Len(events')].key = r]_vars

C11_Witness ==
    \E r \in RequestIdInputs :
        /\ decryptionContexts[r].processed
        /\ \E i \in EventIndices("DecryptionCompleted") : events[i].key = r /\ i < Len(events)
        /\ \E q \in RequestIdInputs : q < nextRequestId /\ ~decryptionContexts[q].processed

\* the ledger: everything a call can write
LedgerState ==
    <<providers, paused, cooldownSeconds, batches, contributions,
      decryptionContexts, lastSubmissionTime, lastDecryptionRequestTime,
      events, dispatched>>

\* some call that emits the event e passes every check of its function
CallAccepted(e) ==
    CASE e.name = "ProviderAdded" -> \E caller \in Actors : addProviderError(caller, e.who) = "ok"
      [] e.name = "ProviderRemoved" -> \E caller \in Actors : removeProviderError(caller, e.who) = "ok"
      [] e.name = "Paused" -> pauseError(e.who) = "ok"
      [] e.name = "Unpaused" -> unpauseError(e.who) = "ok"
      [] e.name = "CooldownSet" -> \E caller \in Actors : setCooldownSecondsError(caller, e.val) = "ok"
      [] e.name = "BatchOpened" -> \E caller \in Actors : openBatchError(caller) = "ok"
      [] e.name = "BatchClosed" -> \E caller \in Actors : closeBatchError(caller, e.batchId) = "ok"
      [] e.name = "ContributionSubmitted" -> submitContributionError(e.who, e.batchId, e.key) = "ok"
      [] e.name = "DecryptionRequested" ->
            \E caller \in Actors : requestBatchScoreDecryptionError(caller, e.batchId) = "ok"
      [] e.name = "DecryptionCompleted" ->
            \E caller \in Actors, len \in CleartextLenInputs, proof \in ProofInputs :
                myCallbackError(caller, e.key, len, e.val, proof) = "ok"
      [] OTHER -> FALSE

\* C12: a step that changes anything in the ledger is one call that passes
\* every check of its function and appends exactly its event; a call for
\* which a check fires changes nothing.
C12_FailingCallsChangeNothing ==
    [][LedgerState' # LedgerState =>
          /\ Len(events') = Len(events) + 1
          /\ SubSeq(events', 1, Len(events)) = events
          /\ CallAccepted(events'[Len(events')])]_vars

C12_Witness ==
    /\ closeBatchError(Owner, 0) = "BatchClosed"
    /\ submitContributionError(Alice, 0, 1) = "BatchClosed"
    /\ requestBatchScoreDecryptionError(Owner, 0) = "CooldownActive"
    /\ myCallbackError(Oracle, 0, CleartextLength, 1, 0) = "DecryptionFailed"
    /\ setCooldownSecondsError(Owner, 0) = "InvalidArgument"
    /\ openBatchError(Alice) = "NotOwner"

\* C13: for a stored, unprocessed context a callback whose cleartext is not
\* 32 bytes long or whose proof fails verification fails with DecryptionFailed.
C13_DecryptionFailed ==
    \A r \in RequestIdInputs :
        (r < nextRequestId /\ ~decryptionContexts[r].processed) =>
            \A caller \in Actors, len \in CleartextLenInputs,
               val \in ClearValueInputs, proof \in ProofInputs :
                  (len # CleartextLength \/ ~checkSignatures(r, val, proof)) =>
                      myCallbackError(caller, r, len, val, proof) = "DecryptionFailed"

C13_Witness ==
    \E r \in RequestIdInputs :
        /\ r < nextRequestId
        /\ ~decryptionContexts[r].processed
        /\ EventCount("DecryptionCompleted", r) = 0
        /\ myCallbackError(Oracle, r, 31, 1, 1) = "DecryptionFailed"
        /\ myCallbackError(Oracle, r, CleartextLength, 1, 0) = "DecryptionFailed"
        /\ myCallbackError(Oracle, r, CleartextLength, 1, 1) = "ok"

\* the modifiers of requestBatchScoreDecryption all pass for the owner
RequestPassesModifiers ==
    /\ ~paused
    /\ now >= lastDecryptionRequestTime[Owner] + cooldownSeconds

\* C14: whatever became of the callbacks of a stored request, the owner's
\* next request for the same batch is accepted once the pause and cooldown
\* modifiers pass; an accepted request stores an unprocessed context under an
\* id never used before and leaves every other context as it was.
C14_FreshRequestAfterRejection ==
    /\ [](\A r \in RequestIdInputs :
            (r < nextRequestId /\ RequestPassesModifiers) =>
                requestBatchScoreDecryptionError(Owner, decryptionContexts[r].batchId) = "ok")
    /\ [][Len(dispatched') > Len(dispatched) =>
            /\ Len(dispatched') = Len(dispatched) + 1
            /\ EventCount("DecryptionRequested", nextRequestId) = 0
            /\ decryptionContexts[nextRequestId] = DecryptionContext(0, 0, FALSE)
            /\ decryptionContexts'[nextRequestId].stateHash # 0
            /\ ~decryptionContexts'[nextRequestId].processed
            /\ \A r \in RequestIdInputs :
                  r # nextRequestId => decryptionContexts'[r] = decryptionContexts[r]]_vars

C14_Witness ==
    /\ nextRequestId = 2
    /\ decryptionContexts[0].batchId = decryptionContexts[1].batchId
    /\ ~decryptionContexts[0].processed
    /\ ~decryptionContexts[1].processed
    /\ myCallbackError(Oracle, 0, CleartextLength, 1, 0) = "DecryptionFailed"
    /\ events[Len(events)].name = "DecryptionRequested"
    /\ events[Len(events)].key = 1

\* C15: a decryption request for an unknown or still open batch never
\* succeeds and, once the owner, pause and cooldown modifiers pass, fails with
\* InvalidBatch; every recorded request follows the closing of its batch.
C15_RequestNeedsClosedBatch ==
    /\ \A caller \in Actors, b \in BatchIdInputs :
          (b >= batchesLength \/ batchAt(b).open) =>
              /\ requestBatchScoreDecryptionError(caller, b) # "ok"
              /\ (caller = Owner /\ RequestPassesModifiers) =>
                    requestBatchScoreDecryptionError(caller, b) = "InvalidBatch"
    /\ \A i \in EventIndices("DecryptionRequested") :
          \E j \in 1..(i - 1) :
              events[j].name = "BatchClosed" /\ events[j].batchId = events[i].batchId
    /\ \A r \in RequestIdInputs :
          r < nextRequestId =>
              (decryptionContexts[r].batchId < batchesLength
                 /\ ~batchAt(decryptionContexts[r].batchId).open)

C15_Witness ==
    \E b \in BatchIdInputs :
        /\ b < batchesLength
        /\ batchAt(b).open
        /\ RequestPassesModifiers
        /\ requestBatchScoreDecryptionError(Owner, b) = "InvalidBatch"
        /\ requestBatchScoreDecryptionError(Owner, batchesLength) = "InvalidBatch"
        /\ nextRequestId >= 1

\* C16: a step that dispatches a request stores, under the oracle's id, the
\* context made of the requested batch id, the hash of the dispatched handle
\* set and processed = false, records the owner's request time and appends
\* DecryptionRequested(requestId, batchId).
C16_RequestStoresContext ==
    [][Len(dispatched') > Len(dispatched) =>
          LET requestId == nextRequestId
              e == events'[Len(events')]
          IN /\ dispatched' = Append(dispatched, batchAggregate(e.batchId))
             /\ events' = Append(events, Event("DecryptionRequested", NoAddress, e.batchId, requestId, 0))
             /\ decryptionContexts' = [decryptionContexts EXCEPT ![requestId] =
                    DecryptionContext(e.batchId, _hashCiphertexts(dispatched'[requestId + 1]), FALSE)]
             /\ decryptionContexts'[requestId].stateHash =
                    HashBase + dispatched'[requestId + 1][1] * HandleRadix + ThisAddress
             /\ lastDecryptionRequestTime' = [lastDecryptionRequestTime EXCEPT ![Owner] = now]]_vars

C16_Witness ==
    /\ nextRequestId >= 1
    /\ events[Len(events)].name = "DecryptionRequested"
    /\ events[Len(events)].key = nextRequestId - 1
    /\ events[Len(events)].batchId = 1
    /\ decryptionContexts[nextRequestId - 1].batchId = 1
    /\ lastDecryptionRequestTime[Owner] = now

\* C17: a callback that passes every check is accepted, and the step that
\* sets processed for a request appends DecryptionCompleted with that
\* requestId, the batch id stored in its context and the decoded cleartext.
C17_AcceptedCallbackCompletes ==
    /\ [](\A r \in RequestIdInputs, caller \in Actors, val \in ClearValueInputs :
            (r < nextRequestId /\ ~decryptionContexts[r].processed /\ HashMatches(r)) =>
                myCallbackError(caller, r, CleartextLength, val, 1) = "ok")
    /\ [][\A r \in RequestIdInputs :
            (~decryptionContexts[r].processed /\ decryptionContexts'[r].processed) =>
                \E val \in ClearValueInputs :
                    events' = Append(events, Event("DecryptionCompleted", NoAddress,
                                                   decryptionContexts[r].batchId, r, val))]_vars

C17_Witness ==
    \E r \in RequestIdInputs :
        /\ decryptionContexts[r].processed
        /\ decryptionContexts[r].batchId # r
        /\ events[Len(events)] = Event("DecryptionCompleted", NoAddress,
                                       decryptionContexts[r].batchId, r, 1)

\* a holds the provider role according to the log: some ProviderAdded(a)
\* before position k is followed by no ProviderRemoved(a) before position k
AddedAndNotRemovedBefore(a, k) ==
    \E i \in 1..(k - 1) :
        /\ events[i].name = "ProviderAdded"
        /\ events[i].who = a
        /\ \A j \in (i + 1)..(k - 1) :
              ~(events[j].name = "ProviderRemoved" /\ events[j].who = a)

\* C18: submitContribution by a caller that does not hold the provider role,
\* because it was never added or was added and later removed, fails with
\* NotProvider whatever the batch and contribution id, and every recorded
\* contribution was submitted by a caller holding the role at that moment.
C18_NonProviderRejected ==
    /\ \A a \in Actors : providers[a] <=> AddedAndNotRemovedBefore(a, Len(events) + 1)
    /\ \A caller \in Actors, b \in BatchIdInputs, c \in ContributionIds :
          ~providers[caller] => submitContributionError(caller, b, c) = "NotProvider"
    /\ \A i \in EventIndices("ContributionSubmitted") :
          AddedAndNotRemovedBefore(events[i].who, i)
    /\ \A c \in ContributionIds :
          contributions[c].exists => EventCount("ContributionSubmitted", c) = 1

C18_Witness ==
    \E b \in BatchIdInputs, c \in ContributionIds :
        /\ \E i \in EventIndices("ProviderRemoved") : events[i].who = Alice
        /\ \E i \in EventIndices("ContributionSubmitted") : events[i].who = Alice
        /\ ~providers[Alice]
        /\ ~paused
        /\ b < batchesLength
        /\ batchAt(b).open
        /\ ~contributions[c].exists
        /\ submitContributionError(Alice, b, c) = "NotProvider"
        /\ submitContributionError(Oracle, b, c) = "NotProvider"

\* C19: each of the eight owner-only functions called by anyone but the
\* owner fails with NotOwner for every argument, and a step that changes
\* provider membership is an addProvider or removeProvider call of the owner.
C19_NonOwnerRejected ==
    /\ [](\A caller \in Actors \ {Owner} :
            /\ \A p \in ProviderInputs : addProviderError(caller, p) = "NotOwner"
            /\ \A p \in ProviderInputs : removeProviderError(caller, p) = "NotOwner"
            /\ pauseError(caller) = "NotOwner"
            /\ unpauseError(caller) = "NotOwner"
            /\ \A s \in CooldownInputs : setCooldownSecondsError(caller, s) = "NotOwner"
            /\ openBatchError(caller) = "NotOwner"
            /\ \A b \in BatchIdInputs : closeBatchError(caller, b) = "NotOwner"
            /\ \A b \in BatchIdInputs : requestBatchScoreDecryptionError(caller, b) = "NotOwner")
    /\ [][providers' # providers =>
            \E p \in ProviderInputs : addProvider(Owner, p) \/ removeProvider(Owner, p)]_vars

C19_Witness ==
    /\ providers[Alice]
    /\ batchesLength = 2
    /\ addProviderError(Owner, Alice) = "ok"
    /\ removeProviderError(Owner, Alice) = "ok"
    /\ pauseError(Owner) = "ok"
    /\ unpauseError(Owner) = "ok"
    /\ setCooldownSecondsError(Owner, 120) = "ok"
    /\ openBatchError(Owner) = "ok"
    /\ closeBatchError(Owner, 1) = "ok"
    /\ requestBatchScoreDecryptionError(Owner, 0) = "ok"
    /\ removeProviderError(Alice, Alice) = "NotOwner"
    /\ closeBatchError(Alice, 1) = "NotOwner"
    /\ requestBatchScoreDecryptionError(Oracle, 0) = "NotOwner"

\* C20: lastSubmissionTime of a provider is the time of its latest accepted
\* submission; with the provider and pause modifiers passing, a further
\* submission at now < lastSubmissionTime + cooldownSeconds fails with
\* CooldownActive, and at now >= that bound it does not, succeeding for an
\* open batch and an unused contribution id.
C20_SubmissionCooldown ==
    /\ [](\A caller \in Actors, b \in BatchIdInputs, c \in ContributionIds :
            /\ now < lastSubmissionTime[caller] + cooldownSeconds =>
                  submitContributionError(caller, b, c) # "ok"
            /\ (providers[caller] /\ ~paused /\ lastSubmissionTime[caller] > 0) =>
                  /\ now < lastSubmissionTime[caller] + cooldownSeconds =>
                        submitContributionError(caller, b, c) = "CooldownActive"
                  /\ now >= lastSubmissionTime[caller] + cooldownSeconds =>
                        /\ submitContributionError(caller, b, c) # "CooldownActive"
                        /\ (b < batchesLength /\ batchAt(b).open /\ ~contributions[c].exists) =>
                              submitContributionError(caller, b, c) = "ok")
    /\ [][\A a \in Actors :
            /\ lastSubmissionTime'[a] # lastSubmissionTime[a] =>
                  /\ lastSubmissionTime'[a] = now
                  /\ now >= lastSubmissionTime[a] + cooldownSeconds
                  /\ Len(events') = Len(events) + 1
                  /\ events'[Len(events')].name = "ContributionSubmitted"
                  /\ events'[Len(events')].who = a
            /\ (/\ Len(events') = Len(events) + 1
                /\ events'[Len(events')].name = "ContributionSubmitted"
                /\ events'[Len(events')].who = a) =>
                  lastSubmissionTime'[a] = now]_vars

C20_Witness ==
    \E b \in BatchIdInputs :
        /\ Cardinality({i \in EventIndices("ContributionSubmitted") : events[i].who = Alice}) = 2
        /\ lastSubmissionTime[Alice] = GenesisTime + TickStep
        /\ providers[Alice]
        /\ ~paused
        /\ b < batchesLength
        /\ batchAt(b).open
        /\ now < lastSubmissionTime[Alice] + cooldownSeconds
        /\ submitContributionError(Alice, b, 1) = "CooldownActive"

\* the step is an accepted submitContribution of actor a
SubmitAcceptedBy(a) ==
    /\ Len(events') = Len(events) + 1
    /\ events'[Len(events')].name = "ContributionSubmitted"
    /\ events'[Len(events')].who = a

\* the step is an accepted requestBatchScoreDecryption
RequestAccepted ==
    /\ Len(events') = Len(events) + 1
    /\ events'[Len(events')].name = "DecryptionRequested"

\* C21: lastSubmissionTime of an actor changes only in a step that is that
\* actor's accepted submitContribution, and lastDecryptionRequestTime only in
\* the owner's accepted requestBatchScoreDecryption; in both cases every
\* check of the call passed in the state before, so a rejected call never
\* moves the end of the lockout.
C21_TimestampOnlyOnSuccess ==
    [][\A a \in Actors :
          /\ lastSubmissionTime'[a] # lastSubmissionTime[a] =>
                /\ SubmitAcceptedBy(a)
                /\ submitContributionError(a, events'[Len(events')].batchId,
                                           events'[Len(events')].key) = "ok"
                /\ ~contributions[events'[Len(events')].key].exists
                /\ contributions'[events'[Len(events')].key].exists
          /\ lastDecryptionRequestTime'[a] # lastDecryptionRequestTime[a] =>
                /\ RequestAccepted
                /\ a = Owner
                /\ requestBatchScoreDecryptionError(a, events'[Len(events')].batchId) = "ok"
                /\ Len(dispatched') = Len(dispatched) + 1
          /\ (events' = events /\ now' = now /\ cooldownSeconds' = cooldownSeconds) =>
                /\ checkSubmissionCooldown(a)' = checkSubmissionCooldown(a)
                /\ checkDecryptionCooldown(a)' = checkDecryptionCooldown(a)]_vars

C21_Witness ==
    \E b \in BatchIdInputs, c \in ContributionIds :
        /\ lastSubmissionTime[Alice] = GenesisTime
        /\ lastDecryptionRequestTime[Owner] = 0
        /\ now = GenesisTime + TickStep
        /\ cooldownSeconds > TickStep
        /\ b < batchesLength
        /\ batchAt(b).open
        /\ ~contributions[c].exists
        /\ submitContributionError(Alice, b, c) = "CooldownActive"
        /\ requestBatchScoreDecryptionError(Owner, b) = "InvalidBatch"

\* C22: an accepted submitContribution sets lastSubmissionTime of its caller
\* and leaves every other submission timer, every decryption-request timer
\* and the outcome of every decryption cooldown check as they were; an
\* accepted requestBatchScoreDecryption does the same with the roles of the
\* two timers exchanged.
C22_TimersIndependent ==
    [][/\ \A a \in Actors :
             SubmitAcceptedBy(a) =>
                 /\ lastSubmissionTime' = [lastSubmissionTime EXCEPT ![a] = now]
                 /\ lastDecryptionRequestTime' = lastDecryptionRequestTime
                 /\ \A x \in Actors :
                       checkDecryptionCooldown(x)' = checkDecryptionCooldown(x)
       /\ RequestAccepted =>
             /\ lastDecryptionRequestTime' = [lastDecryptionRequestTime EXCEPT ![Owner] = now]
             /\ lastSubmissionTime' = lastSubmissionTime
             /\ \A x \in Actors :
                   checkSubmissionCooldown(x)' = checkSubmissionCooldown(x)]_vars

C22_Witness ==
    /\ lastSubmissionTime[Alice] = GenesisTime
    /\ lastDecryptionRequestTime[Owner] = GenesisTime + TickStep
    /\ lastSubmissionTime[Owner] = 0
    /\ lastDecryptionRequestTime[Alice] = 0
    /\ checkDecryptionCooldown(Owner)
    /\ ~checkSubmissionCooldown(Owner)
    /\ ~checkDecryptionCooldown(Alice)
    /\ events[Len(events)].name = "DecryptionRequested"

\* the positions of the events named n about batch b
BatchEventIndices(n, b) == {i \in EventIndices(n) : events[i].batchId = b}

\* C23 as the specification words it: closing a batch that is not Open fails
\* with AlreadyClosed.
C23_AlreadyClosedError ==
    \A b \in BatchIdInputs :
        ~paused =>
            /\ b >= batchesLength => closeBatchError(Owner, b) = "InvalidBatch"
            /\ (b < batchesLength /\ ~batchAt(b).open) =>
                  closeBatchError(Owner, b) = "AlreadyClosed"
            /\ (b < batchesLength /\ batchAt(b).open) => closeBatchError(Owner, b) = "ok"

\* C23: closeBatch by the owner while not paused fails with InvalidBatch for
\* an id never opened and with BatchClosed for a batch that is not Open, and
\* is accepted otherwise; a batch is Closed exactly when the log holds its
\* BatchClosed event, and the log holds at most one per batch.
C23_CloseBatchOnce ==
    /\ \A b \in BatchIdInputs :
          ~paused =>
              /\ b >= batchesLength => closeBatchError(Owner, b) = "InvalidBatch"
              /\ (b < batchesLength /\ ~batchAt(b).open) =>
                    closeBatchError(Owner, b) = "BatchClosed"
              /\ (b < batchesLength /\ batchAt(b).open) => closeBatchError(Owner, b) = "ok"
    /\ \A b \in BatchIdInputs :
          /\ Cardinality(BatchEventIndices("BatchClosed", b)) <= 1
          /\ (b < batchesLength /\ ~batchAt(b).open) <=>
                Cardinality(BatchEventIndices("BatchClosed", b)) = 1

C23_Witness ==
    /\ ~paused
    /\ batchesLength = 2
    /\ ~batchAt(0).open
    /\ batchAt(1).open
    /\ closeBatchError(Owner, 0) = "BatchClosed"
    /\ closeBatchError(Owner, 1) = "ok"
    /\ closeBatchError(Owner, 2) = "InvalidBatch"
    /\ events[Len(events)] = Event("BatchClosed", NoAddress, 0, 0, 0)

\* C24: after n accepted openBatch calls the batches are exactly those with
\* ids 0..n-1, the k-th call having created id k-1, and each of them is Open
\* unless it was closed: no later openBatch reused, overwrote or reopened it.
C24_SequentialBatchIds ==
    LET n == Cardinality(EventIndices("BatchOpened")) IN
    /\ batchesLength = n
    /\ DOMAIN batches = 0..(n - 1)
    /\ \A b \in DOMAIN batches : batches[b].id = b
    /\ \A i \in EventIndices("BatchOpened") :
          events[i].batchId = Cardinality({j \in EventIndices("BatchOpened") : j < i})
    /\ \A b \in DOMAIN batches :
          /\ Cardinality(BatchEventIndices("BatchOpened", b)) = 1
          /\ batches[b].open <=> BatchEventIndices("BatchClosed", b) = {}

C24_Witness ==
    /\ batchesLength = 2
    /\ ~batchAt(0).open
    /\ batchAt(1).open
    /\ events[Len(events)] = Event("BatchOpened", NoAddress, 1, 0, 0)
    /\ BatchEventIndices("BatchClosed", 0) # {}

\* C25: an accepted submitContribution stores under its contribution id the
\* record made of the two input handles as given, their FHE sum as
\* totalScore and exists = true, touches no other record, and appends exactly
\* one event, ContributionSubmitted(caller, batchId, contributionId).
C25_SubmitStoresRecord ==
    [][\A c \in ContributionIds :
          (~contributions[c].exists /\ contributions'[c].exists) =>
              \E caller \in Actors, b \in BatchIdInputs,
                 skill \in SkillInputs, contribution \in ContributionInputs :
                  /\ submitContributionError(caller, b, c) = "ok"
                  /\ contributions' = [contributions EXCEPT ![c] =
                        [skillScore |-> skill, contributionScore |-> contribution,
                         totalScore |-> FheAdd(skill, contribution), exists |-> TRUE]]
                  /\ events' = Append(events, Event("ContributionSubmitted", caller, b, c, 0))]_vars

C25_Witness ==
    \E c \in ContributionIds :
        /\ contributions[c].exists
        /\ events[Len(events)].name = "ContributionSubmitted"
        /\ events[Len(events)].key = c
        /\ events[Len(events)].who = Alice
        /\ EventCount("ContributionSubmitted", c) = 1
        /\ contributions[c] = [skillScore |-> 2, contributionScore |-> 3,
                               totalScore |-> FheAdd(2, 3), exists |-> TRUE]

\* batch b had been opened and not yet closed when event k was emitted
OpenBefore(b, k) ==
    /\ \E j \in BatchEventIndices("BatchOpened", b) : j < k
    /\ \A j \in BatchEventIndices("BatchClosed", b) : j > k

\* C26: every stored contribution record holds the batchId of the batch it
\* was submitted into, and that batch existed and was Open when the
\* contribution was submitted.
C26_ContributionRecordsBatch ==
    \A c \in ContributionIds :
        contributions[c].exists =>
            /\ "batchId" \in DOMAIN contributions[c]
            /\ \E i \in EventIndices("ContributionSubmitted") :
                  /\ events[i].key = c
                  /\ contributions[c].batchId = events[i].batchId
                  /\ OpenBefore(events[i].batchId, i)

\* the latest membership event about actor a, 0 if there is none
LastMembershipEvent(a) ==
    LET S == {i \in 1..Len(events) :
                events[i].name \in {"ProviderAdded", "ProviderRemoved"} /\ events[i].who = a}
    IN IF S = {} THEN 0 ELSE CHOOSE i \in S : \A j \in S : j <= i

C28_CooldownPositive ==
    /\ setCooldownSecondsError(Owner, 0) = "InvalidArgument"
    /\ cooldownSeconds > 0
    /\ \A i \in EventIndices("CooldownSet") : events[i].val > 0
    /\ IF EventIndices("CooldownSet") = {}
       THEN cooldownSeconds = InitialCooldownSeconds
       ELSE cooldownSeconds =
              events[CHOOSE i \in EventIndices("CooldownSet") :
                        \A j \in EventIndices("CooldownSet") : j <= i].val

C28_Witness ==
    /\ EventIndices("CooldownSet") # {}
    /\ cooldownSeconds = 120
    /\ 0 \in CooldownInputs
    /\ setCooldownSecondsError(Owner, 0) = "InvalidArgument"
    /\ setCooldownSecondsError(Owner, 120) = "ok"

\* C29: once a decryption request for batch b has been accepted, no
\* submitContribution into b is accepted from anyone, and in the log every
\* contribution submitted into b comes before every request for b: the set of
\* contributions of b no longer changes after the request.
C29_NoSubmitAfterRequest ==
    /\ \A r \in RequestIdInputs :
          r < nextRequestId =>
              \A caller \in Actors, c \in ContributionIds :
                  submitContributionError(caller, decryptionContexts[r].batchId, c) # "ok"
    /\ \A j \in EventIndices("DecryptionRequested") :
          \A i \in BatchEventIndices("ContributionSubmitted", events[j].batchId) : i < j

C29_Witness ==
    \E c \in ContributionIds :
        /\ nextRequestId = 1
        /\ BatchEventIndices("ContributionSubmitted", decryptionContexts[0].batchId) # {}
        /\ ~contributions[c].exists
        /\ SubmitPassesModifiers(Alice)
        /\ submitContributionError(Alice, decryptionContexts[0].batchId, c) = "BatchClosed"

\* C30: every DecryptionCompleted(requestId, batchId, _) in the log comes
\* after a DecryptionRequested(requestId, batchId) with the same two ids, and
\* a callback for a requestId the oracle never returned is rejected whoever
\* sends it and whatever cleartext and proof it carries.
C30_CompletedFollowsRequested ==
    /\ \A i \in EventIndices("DecryptionCompleted") :
          \E j \in 1..(i - 1) :
              /\ events[j].name = "DecryptionRequested"
              /\ events[j].key = events[i].key
              /\ events[j].batchId = events[i].batchId
    /\ \A r \in RequestIdInputs :
          r >= nextRequestId =>
              /\ ~decryptionContexts[r].processed
              /\ \A caller \in Actors, len \in CleartextLenInputs,
                    val \in ClearValueInputs, proof \in ProofInputs :
                     myCallbackError(caller, r, len, val, proof) # "ok"

C30_Witness ==
    /\ nextRequestId = 1
    /\ decryptionContexts[0].processed
    /\ events[Len(events)].name = "DecryptionCompleted"
    /\ events[Len(events) - 1] =
          Event("DecryptionRequested", NoAddress, events[Len(events)].batchId, 0, 0)
    /\ myCallbackError(Oracle, 1, CleartextLength, 1, 1) = "StateMismatch"

\* C31: in every reachable state, whatever calls followed the request, the
\* hash recomputed for a stored request equals the stored one, so a callback
\* with 32 bytes of cleartext and a proof the signature check accepts is
\* accepted for every request not yet processed, from any sender, paused or
\* not: the first such delivery completes the request.
C31_WellFormedCallbackAccepted ==
    \A r \in RequestIdInputs :
        r < nextRequestId =>
            /\ HashMatches(r)
            /\ decryptionContexts[r].processed <=> EventCount("DecryptionCompleted", r) = 1
            /\ ~decryptionContexts[r].processed =>
                  \A caller \in Actors, val \in ClearValueInputs :
                      myCallbackError(caller, r, CleartextLength, val, 1) = "ok"

C31_Witness ==
    \E j \in EventIndices("DecryptionRequested") :
        /\ events[j].key = 0
        /\ ~decryptionContexts[0].processed
        /\ \E k \in EventIndices("BatchOpened") : k > j
        /\ \E k \in EventIndices("ProviderAdded") : k > j
        /\ batchesLength = 2
        /\ myCallbackError(Oracle, 0, CleartextLength, 1, 1) = "ok"

\* the number of events named n in the log
NumEvents(n) == Cardinality(EventIndices(n))

\* C32: every step leaves the log as it was or appends one event to it, and
\* in every reachable state the log holds one ContributionSubmitted per stored
\* contribution, one BatchOpened per batch, one DecryptionRequested per
\* stored context and one DecryptionCompleted per processed context.
C32_LogMatchesTables ==
    /\ [](/\ NumEvents("ContributionSubmitted") =
                Cardinality({c \in ContributionIds : contributions[c].exists})
          /\ NumEvents("BatchOpened") = batchesLength
          /\ NumEvents("BatchOpened") = Cardinality(DOMAIN batches)
          /\ NumEvents("DecryptionRequested") = nextRequestId
          /\ NumEvents("DecryptionRequested") =
                Cardinality({r \in RequestIdInputs : decryptionContexts[r].stateHash # 0})
          /\ NumEvents("DecryptionCompleted") =
                Cardinality({r \in RequestIdInputs : decryptionContexts[r].processed}))
    /\ [][\/ events' = events
          \/ /\ Len(events') = Len(events) + 1
             /\ SubSeq(events', 1, Len(events)) = events]_vars

C32_Witness ==
    /\ NumEvents("ContributionSubmitted") = 1
    /\ NumEvents("BatchOpened") = 1
    /\ NumEvents("DecryptionRequested") = 1
    /\ NumEvents("DecryptionCompleted") = 0
    /\ Cardinality({c \in ContributionIds : contributions[c].exists}) = 1
    /\ ~decryptionContexts[0].processed
    /\ decryptionContexts[0].stateHash # 0

\* the entries of the stored list that session c contributed
StoredBy(c) ==
    {i \in 1..Len(JSONparse(storedData)) : JSONparse(storedData)[i].contributor = c}

\* C33: once two browser sessions have each saved one contribution and no
\* handler is running, the stored list holds the contribution of each of them
\* and no two of its entries share an id.
C33_BothContributionsStored ==
    ((\A c \in Clients : saved[c] = 1 /\ pc[c] = "idle") =>
        /\ \A c \in Clients : Cardinality(StoredBy(c)) = 1
        /\ Len(storedData) = Cardinality(Clients)
        /\ \A i, j \in 1..Len(storedData) :
              JSONparse(storedData)[i].id = JSONparse(storedData)[j].id => i = j)

====
